---- MODULE Spec2Model ----
(***************************************************************************)
(* GCRA rate limiter (src/src/lib.rs): Quota, State and the operations     *)
(* check_and_modify_at, revert_at and remaining_resources.                 *)
(*                                                                         *)
(* Instants and Durations are integers counted in the clock's resolution   *)
(* (nanoseconds in std::time).  Option<Instant> is a sequence of length 0  *)
(* (None) or 1 (Some).  check_and_modify and revert pass Instant::now() to *)
(* the _at operations; the actions below draw arrived_at freely, which     *)
(* covers every value the wrappers can pass.  Duration and Instant          *)
(* arithmetic panics on overflow in std::time; the values explored here    *)
(* stay far below that range, so every call returns.                       *)
(***************************************************************************)
EXTENDS Integers, Sequences, FiniteSets, TLC

\* ---- bounds of the model ------------------------------------------------
MaxLimit == 3
MaxPeriod == 4
MaxTime == 2
MaxCost == 4
MaxCalls == 4
MaxLedgerCalls == 4

Limits == 1..MaxLimit
Periods == 0..MaxPeriod
Times == 0..MaxTime
Costs == 0..MaxCost

VARIABLES quota, state, last, admitted, ncalls, unitBurst, wrote, maxAdmit

vars == <<quota, state, last, admitted, ncalls, unitBurst, wrote, maxAdmit>>

\* ---- Option<Instant> ------------------------------------------------------
None == <<>>
Some(t) == <<t>>
IsSome(o) == Len(o) = 1
Unwrap(o) == o[1]

\* ---- Result<(), Error> ----------------------------------------------------
Ok == [kind |-> "Ok", val |-> 0]
DeniedIndefinitely(cost) == [kind |-> "DeniedIndefinitely", val |-> cost]
DeniedUntil(ts) == [kind |-> "DeniedUntil", val |-> ts]
IsErr(r) == r.kind # "Ok"

Max(a, b) == IF a >= b THEN a ELSE b

\* ---- Quota ----------------------------------------------------------------
\* Faulty variant: the emission interval rounded up instead of truncated.
QuotaNew_RoundUp(resource_limit, period) ==
    [resource_limit |-> resource_limit,
     period |-> period,
     emission_interval |-> (period + resource_limit - 1) \div resource_limit]

\* Quota::new: Duration / u32 truncates.
QuotaNew(resource_limit, period) ==
    [resource_limit |-> resource_limit,
     period |-> period,
     emission_interval |-> period \div resource_limit]

increment_interval(q, cost) == q.emission_interval * cost

\* ---- faulty variants of check_and_modify_at --------------------------------
\* The new TAT is stored before the tolerance test, so a denial leaves it.
check_and_modify_at_CommitEarly(q, tat0, arrived_at, cost) ==
    LET inc == increment_interval(q, cost) IN
    IF inc > q.period
    THEN [tat |-> tat0, res |-> DeniedIndefinitely(cost)]
    ELSE IF ~IsSome(tat0)
    THEN [tat |-> Some(arrived_at + inc), res |-> Ok]
    ELSE LET tat == Unwrap(tat0) IN
         IF tat < arrived_at
         THEN [tat |-> Some(Max(tat, arrived_at) + inc), res |-> Ok]
         ELSE LET new_tat == tat + inc
                  next_allowed_at == new_tat - q.period
              IN IF next_allowed_at <= arrived_at
                 THEN [tat |-> Some(new_tat), res |-> Ok]
                 ELSE [tat |-> Some(new_tat), res |-> DeniedUntil(next_allowed_at)]

\* The tolerance test looks at the stored TAT instead of the new one.
check_and_modify_at_OldTat(q, tat0, arrived_at, cost) ==
    LET inc == increment_interval(q, cost) IN
    IF inc > q.period
    THEN [tat |-> tat0, res |-> DeniedIndefinitely(cost)]
    ELSE IF ~IsSome(tat0)
    THEN [tat |-> Some(arrived_at + inc), res |-> Ok]
    ELSE LET tat == Unwrap(tat0) IN
         IF tat < arrived_at
         THEN [tat |-> Some(Max(tat, arrived_at) + inc), res |-> Ok]
         ELSE LET new_tat == tat + inc
                  next_allowed_at == tat - q.period
              IN IF next_allowed_at <= arrived_at
                 THEN [tat |-> Some(new_tat), res |-> Ok]
                 ELSE [tat |-> tat0, res |-> DeniedUntil(next_allowed_at)]

\* The tolerance test is strict: equality denies.
check_and_modify_at_Strict(q, tat0, arrived_at, cost) ==
    LET inc == increment_interval(q, cost) IN
    IF inc > q.period
    THEN [tat |-> tat0, res |-> DeniedIndefinitely(cost)]
    ELSE IF ~IsSome(tat0)
    THEN [tat |-> Some(arrived_at + inc), res |-> Ok]
    ELSE LET tat == Unwrap(tat0) IN
         IF tat < arrived_at
         THEN [tat |-> Some(Max(tat, arrived_at) + inc), res |-> Ok]
         ELSE LET new_tat == tat + inc
                  next_allowed_at == new_tat - q.period
              IN IF next_allowed_at < arrived_at
                 THEN [tat |-> Some(new_tat), res |-> Ok]
                 ELSE [tat |-> tat0, res |-> DeniedUntil(next_allowed_at)]

\* The first request is admitted before the cost is compared to the period.
check_and_modify_at_FirstUnchecked(q, tat0, arrived_at, cost) ==
    LET inc == increment_interval(q, cost) IN
    IF ~IsSome(tat0)
    THEN [tat |-> Some(arrived_at + inc), res |-> Ok]
    ELSE IF inc > q.period
    THEN [tat |-> tat0, res |-> DeniedIndefinitely(cost)]
    ELSE LET tat == Unwrap(tat0) IN
         IF tat < arrived_at
         THEN [tat |-> Some(Max(tat, arrived_at) + inc), res |-> Ok]
         ELSE LET new_tat == tat + inc
                  next_allowed_at == new_tat - q.period
              IN IF next_allowed_at <= arrived_at
                 THEN [tat |-> Some(new_tat), res |-> Ok]
                 ELSE [tat |-> tat0, res |-> DeniedUntil(next_allowed_at)]

\* The first request stores the arrival time without the increment.
check_and_modify_at_FirstNoIncrement(q, tat0, arrived_at, cost) ==
    LET inc == increment_interval(q, cost) IN
    IF inc > q.period
    THEN [tat |-> tat0, res |-> DeniedIndefinitely(cost)]
    ELSE IF ~IsSome(tat0)
    THEN [tat |-> Some(arrived_at), res |-> Ok]
    ELSE LET tat == Unwrap(tat0) IN
         IF tat < arrived_at
         THEN [tat |-> Some(Max(tat, arrived_at) + inc), res |-> Ok]
         ELSE LET new_tat == tat + inc
                  next_allowed_at == new_tat - q.period
              IN IF next_allowed_at <= arrived_at
                 THEN [tat |-> Some(new_tat), res |-> Ok]
                 ELSE [tat |-> tat0, res |-> DeniedUntil(next_allowed_at)]

\* A drained TAT is kept as the base of the new one.
check_and_modify_at_StaleBase(q, tat0, arrived_at, cost) ==
    LET inc == increment_interval(q, cost) IN
    IF inc > q.period
    THEN [tat |-> tat0, res |-> DeniedIndefinitely(cost)]
    ELSE IF ~IsSome(tat0)
    THEN [tat |-> Some(arrived_at + inc), res |-> Ok]
    ELSE LET tat == Unwrap(tat0) IN
         IF tat < arrived_at
         THEN [tat |-> Some(tat + inc), res |-> Ok]
         ELSE LET new_tat == tat + inc
                  next_allowed_at == new_tat - q.period
              IN IF next_allowed_at <= arrived_at
                 THEN [tat |-> Some(new_tat), res |-> Ok]
                 ELSE [tat |-> tat0, res |-> DeniedUntil(next_allowed_at)]

\* ---- State::check_and_modify_at -------------------------------------------
\* The value is the pair (state.tat after the call, returned Result).
check_and_modify_at(q, tat0, arrived_at, cost) ==
    LET inc == increment_interval(q, cost) IN
    IF inc > q.period
    THEN [tat |-> tat0, res |-> DeniedIndefinitely(cost)]
    ELSE IF ~IsSome(tat0)
    THEN [tat |-> Some(arrived_at + inc), res |-> Ok]
    ELSE LET tat == Unwrap(tat0) IN
         IF tat < arrived_at
         THEN LET new_tat == Max(tat, arrived_at) IN
              [tat |-> Some(new_tat + inc), res |-> Ok]
         ELSE LET delay_variation_tolerance == q.period
                  new_tat == tat + inc
                  next_allowed_at == new_tat - delay_variation_tolerance
              IN IF next_allowed_at <= arrived_at
                 THEN [tat |-> Some(new_tat), res |-> Ok]
                 ELSE [tat |-> tat0, res |-> DeniedUntil(next_allowed_at)]

\* ---- faulty variants of revert_at ------------------------------------------
\* The reset also happens when the TAT equals the arrival time.
revert_at_ResetOnEqual(q, tat0, arrived_at, cost) ==
    LET inc == increment_interval(q, cost) IN
    IF ~IsSome(tat0)
    THEN [tat |-> tat0, res |-> Ok]
    ELSE LET tat == Unwrap(tat0) IN
         IF tat <= arrived_at
         THEN [tat |-> None, res |-> Ok]
         ELSE [tat |-> Some(tat - inc), res |-> Ok]

\* No reset: the increment is subtracted from a drained TAT as well.
revert_at_NoReset(q, tat0, arrived_at, cost) ==
    LET inc == increment_interval(q, cost) IN
    IF ~IsSome(tat0)
    THEN [tat |-> tat0, res |-> Ok]
    ELSE [tat |-> Some(Unwrap(tat0) - inc), res |-> Ok]

\* A cost above the period is refused, as check_and_modify_at refuses it.
revert_at_GuardCost(q, tat0, arrived_at, cost) ==
    LET inc == increment_interval(q, cost) IN
    IF inc > q.period
    THEN [tat |-> tat0, res |-> DeniedIndefinitely(cost)]
    ELSE IF ~IsSome(tat0)
    THEN [tat |-> tat0, res |-> Ok]
    ELSE LET tat == Unwrap(tat0) IN
         IF tat < arrived_at
         THEN [tat |-> None, res |-> Ok]
         ELSE [tat |-> Some(tat - inc), res |-> Ok]

\* One emission interval is given back, whatever the cost.
revert_at_UnitCost(q, tat0, arrived_at, cost) ==
    IF ~IsSome(tat0)
    THEN [tat |-> tat0, res |-> Ok]
    ELSE LET tat == Unwrap(tat0) IN
         IF tat < arrived_at
         THEN [tat |-> None, res |-> Ok]
         ELSE [tat |-> Some(tat - q.emission_interval), res |-> Ok]

\* ---- State::revert_at -----------------------------------------------------
revert_at(q, tat0, arrived_at, cost) ==
    LET inc == increment_interval(q, cost)
        compute_revert_tat(new_tat) == new_tat - inc
    IN
    IF ~IsSome(tat0)
    THEN [tat |-> tat0, res |-> Ok]
    ELSE LET tat == Unwrap(tat0) IN
         IF tat < arrived_at
         THEN [tat |-> None, res |-> Ok]
         ELSE [tat |-> Some(compute_revert_tat(tat)), res |-> Ok]

\* ---- State::remaining_resources -------------------------------------------
\* A returned count.
Value(n) == [kind |-> "Value", val |-> n]
\* resource_limit - consumed below zero in u32: a build with overflow checks
\* panics, a build without them wraps.  Wrapped(d), d < 0, stands for the
\* returned count 2^32 + d.
Panic == [kind |-> "Panic", val |-> 0]
Wrapped(d) == [kind |-> "Wrapped", val |-> d]

\* Ceiling of n / d for n >= 0, d > 0.
Ceil(n, d) == (n + d - 1) \div d

\* Faulty variant: consumed is rounded down.
remaining_resources_Floor(q, tat0, now) ==
    IF q.period = 0 THEN {Value(0)}
    ELSE IF ~IsSome(tat0) \/ Unwrap(tat0) < now THEN {Value(q.resource_limit)}
    ELSE LET consumed == ((Unwrap(tat0) - now) * q.resource_limit) \div q.period
         IN IF consumed <= q.resource_limit
            THEN {Value(q.resource_limit - consumed)}
            ELSE {Panic, Wrapped(q.resource_limit - consumed)}

\* The set of outcomes of one call.  time_to_tat * resource_limit / period
\* is computed in real arithmetic, as the exact quotient.
remaining_resources(q, tat0, now) ==
    IF q.period = 0 THEN {Value(0)}
    ELSE IF ~IsSome(tat0) \/ Unwrap(tat0) < now THEN {Value(q.resource_limit)}
    ELSE LET time_to_tat == Unwrap(tat0) - now
             consumed_resources ==
                 Ceil(time_to_tat * q.resource_limit, q.period)
         IN IF consumed_resources <= q.resource_limit
            THEN {Value(q.resource_limit - consumed_resources)}
            ELSE {Panic, Wrapped(q.resource_limit - consumed_resources)}

\* ---- bookkeeping of the calls made so far ----------------------------------
\* charged_at and charged_pre are set on a revert that directly follows an
\* admitted check of the same cost: that check's arrived_at and the tat it
\* found.
Call(op, arrived_at, cost, pre, out, charged_at, charged_pre) ==
    [op |-> op, arrived_at |-> arrived_at, cost |-> cost,
     pre |-> pre, res |-> out.res, charged_at |-> charged_at,
     charged_pre |-> charged_pre]

NoCall == [op |-> "none", arrived_at |-> 0, cost |-> 0,
           pre |-> None, res |-> Ok, charged_at |-> None,
           charged_pre |-> None]

\* The latest call that assigned state.tat, and the largest arrived_at among
\* the checks admitted so far.
NoWrite == [op |-> "none", arrived_at |-> 0]
Wrote(op, arrived_at) == [op |-> op, arrived_at |-> arrived_at]

\* ---- the state machine ----------------------------------------------------
\* State::default() under a quota built by Quota::new.
Init ==
    /\ quota \in {QuotaNew(l, p) : l \in Limits, p \in Periods}
    /\ state = [tat |-> None]
    /\ last = NoCall
    /\ admitted = [t \in Times |-> 0]
    /\ ncalls = 0
    /\ unitBurst = TRUE
    /\ wrote = NoWrite
    /\ maxAdmit = None

CheckAndModifyAt ==
    /\ ncalls < MaxCalls
    /\ \E arrived_at \in Times, cost \in Costs :
         LET out == check_and_modify_at(quota, state.tat, arrived_at, cost) IN
         /\ state' = [state EXCEPT !.tat = out.tat]
         /\ last' = Call("check", arrived_at, cost, state.tat, out, None, None)
         /\ unitBurst' = (/\ unitBurst
                          /\ cost = 1
                          /\ (ncalls = 0 \/ last.arrived_at = arrived_at))
         /\ wrote' = IF out.res = Ok THEN Wrote("check", arrived_at) ELSE wrote
         /\ maxAdmit' = IF out.res # Ok THEN maxAdmit
                        ELSE IF IsSome(maxAdmit)
                        THEN Some(Max(Unwrap(maxAdmit), arrived_at))
                        ELSE Some(arrived_at)
    /\ ncalls' = ncalls + 1
    /\ UNCHANGED <<quota, admitted>>

RevertAt ==
    /\ ncalls < MaxCalls
    /\ \E arrived_at \in Times, cost \in Costs :
         LET out == revert_at(quota, state.tat, arrived_at, cost)
             charged == last.op = "check" /\ last.res = Ok
                           /\ last.cost = cost
         IN
         /\ state' = [state EXCEPT !.tat = out.tat]
         /\ last' = Call("revert", arrived_at, cost, state.tat, out,
                       IF charged THEN Some(last.arrived_at) ELSE None,
                       IF charged THEN last.pre ELSE None)
         /\ wrote' = IF IsSome(state.tat)
                     THEN Wrote("revert", arrived_at) ELSE wrote
    /\ ncalls' = ncalls + 1
    /\ unitBurst' = FALSE
    /\ UNCHANGED <<quota, admitted, maxAdmit>>

\* remaining_resources takes &self: the state is read, never written.
RemainingResources ==
    /\ ncalls < MaxCalls
    /\ \E now \in Times :
         \E out \in remaining_resources(quota, state.tat, now) :
             last' = Call("remaining", now, 0, state.tat,
                          [tat |-> state.tat, res |-> out], None, None)
    /\ ncalls' = ncalls + 1
    /\ unitBurst' = FALSE
    /\ UNCHANGED <<quota, state, admitted, wrote, maxAdmit>>

Next == CheckAndModifyAt \/ RevertAt \/ RemainingResources

Spec == Init /\ [][Next]_vars

\* ---- checks only, with the ledger of what was admitted ---------------------
\* A sequence of check_and_modify_at calls on one State under one Quota, no
\* revert; admitted[t] is the total cost admitted at arrival time t.
CheckLedger ==
    /\ ncalls < MaxLedgerCalls
    /\ \E arrived_at \in Times, cost \in Costs :
         LET out == check_and_modify_at(quota, state.tat, arrived_at, cost) IN
         /\ state' = [state EXCEPT !.tat = out.tat]
         /\ admitted' = IF out.res = Ok
                        THEN [admitted EXCEPT ![arrived_at] = @ + cost]
                        ELSE admitted
    /\ ncalls' = ncalls + 1
    /\ UNCHANGED <<quota, last, unitBurst, wrote, maxAdmit>>

NextChecks == CheckLedger

SpecChecks == Init /\ [][NextChecks]_vars

\* ---- properties ------------------------------------------------------------
LastCheck == last.op = "check"
LastRevert == last.op = "revert"
LastInc == increment_interval(quota, last.cost)

\* C1: whenever check_and_modify_at returns an error (DeniedIndefinitely or
\* DeniedUntil), state.tat after the call equals state.tat before the call.
C1_DenialPreservesState ==
    (LastCheck /\ IsErr(last.res)) => state.tat = last.pre

C1_Witness ==
    /\ LastCheck
    /\ last.res.kind = "DeniedUntil"
    /\ IsSome(last.pre)
    /\ last.cost > 0
    /\ quota.emission_interval > 0

\* C2: for a quota with resource_limit = N (and a nonzero emission interval),
\* unit-cost checks from a fresh State, all at the same arrived_at, admit
\* exactly N requests, deny the (N+1)th, and leave tat = arrived_at + period
\* after the N admissions and after the denial.
C2_BurstLimit ==
    (unitBurst /\ ncalls >= 1 /\ quota.emission_interval > 0) =>
        LET N == quota.resource_limit
            full == Some(last.arrived_at + quota.period)
        IN /\ (ncalls <= N => last.res = Ok)
           /\ (ncalls = N => state.tat = full)
           /\ (ncalls = N + 1 => (IsErr(last.res) /\ state.tat = full))

\* Total cost admitted at the arrival times lo..hi.
RECURSIVE WindowCost(_, _)
WindowCost(lo, hi) ==
    IF lo > hi THEN 0
    ELSE (IF hi \in Times THEN admitted[hi] ELSE 0) + WindowCost(lo, hi - 1)

ExactQuota ==
    /\ quota.period > 0
    /\ quota.emission_interval * quota.resource_limit = quota.period

\* C3 as stated, taken on quotas whose period is a positive multiple of
\* resource_limit (exact emission interval): in a sequence of checks without
\* reverts, the total cost admitted at arrival times inside any window of
\* length period is at most resource_limit.
C3_WindowLimit_Original ==
    ExactQuota =>
        \A t0 \in Times :
            WindowCost(t0, t0 + quota.period - 1) <= quota.resource_limit

\* C3 (amended): in a sequence of checks without reverts, emission_interval
\* times the total cost admitted at arrival times inside any window
\* [t0, t0 + period] is at most 2 * period.
C3_WindowLimit ==
    \A t0 \in Times :
        quota.emission_interval * WindowCost(t0, t0 + quota.period)
            <= 2 * quota.period

C3_Witness ==
    /\ ExactQuota
    /\ \E t0 \in Times :
         /\ WindowCost(t0, t0 + quota.period) > quota.resource_limit
         /\ quota.emission_interval * WindowCost(t0, t0 + quota.period)
                = 2 * quota.period

\* C4: when a check returns DeniedUntil(ts), a check of the same cost on the
\* unchanged state succeeds at ts and is denied at every time before ts.
C4_DeniedUntilIsEarliest ==
    (LastCheck /\ last.res.kind = "DeniedUntil") =>
        LET ts == last.res.val IN
        /\ check_and_modify_at(quota, state.tat, ts, last.cost).res = Ok
        /\ \A t \in (0 - MaxTime)..(ts - 1) :
             IsErr(check_and_modify_at(quota, state.tat, t, last.cost).res)

C4_Witness ==
    /\ LastCheck
    /\ last.res.kind = "DeniedUntil"
    /\ last.res.val > last.arrived_at + 1
    /\ last.cost > 1
    /\ quota.emission_interval > 0

\* C5: a cost with increment_interval(cost) > period is answered with
\* DeniedIndefinitely(cost) in every state and at every arrival time, and the
\* state is left as it was; so it is denied on every later call too.
C5_IndefiniteDenial ==
    /\ (LastCheck /\ LastInc > quota.period) =>
          (last.res = DeniedIndefinitely(last.cost) /\ state.tat = last.pre)
    /\ \A cost \in Costs, arrived_at \in Times :
          increment_interval(quota, cost) > quota.period =>
              check_and_modify_at(quota, state.tat, arrived_at, cost)
                  = [tat |-> state.tat, res |-> DeniedIndefinitely(cost)]

C5_Witness ==
    /\ LastCheck
    /\ last.res = DeniedIndefinitely(last.cost)
    /\ IsSome(last.pre)
    /\ Unwrap(last.pre) >= last.arrived_at

\* C6, on quotas with a nonzero emission interval: every cost greater than
\* resource_limit is answered with DeniedIndefinitely(cost), in every state.
C6_OverLimitDenied ==
    (LastCheck /\ last.cost > quota.resource_limit
        /\ quota.emission_interval > 0) =>
        last.res = DeniedIndefinitely(last.cost)

\* C7: a cost of at most resource_limit has increment_interval <= period and
\* is never denied indefinitely.
C7_WithinLimitNotIndefinite ==
    /\ \A cost \in 0..quota.resource_limit :
          increment_interval(quota, cost) <= quota.period
    /\ (LastCheck /\ last.cost <= quota.resource_limit) =>
          last.res.kind \in {"Ok", "DeniedUntil"}

C7_Witness ==
    /\ LastCheck
    /\ last.cost = quota.resource_limit
    /\ last.res.kind = "DeniedUntil"
    /\ quota.emission_interval > 0

\* C8: on a State whose tat is unset, a check whose increment_interval is at
\* most period succeeds and sets tat = arrived_at + increment_interval.
C8_FirstRequestAdmitted ==
    (LastCheck /\ ~IsSome(last.pre) /\ LastInc <= quota.period) =>
        (last.res = Ok /\ state.tat = Some(last.arrived_at + LastInc))

C8_Witness ==
    /\ LastCheck
    /\ ~IsSome(last.pre)
    /\ last.res = Ok
    /\ LastInc > 0
    /\ last.arrived_at > 0

\* C9: after a successful check of cost c at time t that left tat = T, a
\* revert_at called next with the same cost at a time <= T sets
\* tat = T - increment_interval(c), and a check of cost c at t then succeeds.
C9_RevertAfterCheck ==
    (LastRevert /\ IsSome(last.charged_at)
        /\ last.arrived_at <= Unwrap(last.pre)) =>
        /\ state.tat = Some(Unwrap(last.pre) - LastInc)
        /\ check_and_modify_at(quota, state.tat,
                               Unwrap(last.charged_at), last.cost).res = Ok

C9_Witness ==
    /\ LastRevert
    /\ IsSome(last.charged_at)
    /\ last.arrived_at = Unwrap(last.pre)
    /\ LastInc > 0
    /\ Unwrap(last.charged_at) < last.arrived_at

\* C10: when tat is set and tat < arrived_at, revert_at unsets tat whatever
\* the cost, and a check at arrived_at then acts as a first request: it
\* succeeds and sets tat = arrived_at + increment_interval.
C10_RevertDrainedResets ==
    (LastRevert /\ IsSome(last.pre) /\ Unwrap(last.pre) < last.arrived_at) =>
        /\ state.tat = None
        /\ \A cost \in Costs :
             increment_interval(quota, cost) <= quota.period =>
                 check_and_modify_at(quota, state.tat, last.arrived_at, cost)
                     = [tat |-> Some(last.arrived_at
                                     + increment_interval(quota, cost)),
                        res |-> Ok]

C10_Witness ==
    /\ LastRevert
    /\ IsSome(last.pre)
    /\ Unwrap(last.pre) < last.arrived_at
    /\ LastInc > 0
    /\ state.tat = None

\* C11: revert_at returns success for every quota, state, arrival time and
\* cost, charged before or not; on an unset state it leaves tat unset.
C11_RevertNeverFails ==
    LastRevert =>
        /\ last.res = Ok
        /\ (~IsSome(last.pre) => state.tat = None)

C11_Witness ==
    /\ LastRevert
    /\ last.res = Ok
    /\ ~IsSome(last.charged_at)
    /\ LastInc > quota.period
    /\ IsSome(last.pre)

LastRemaining == last.op = "remaining"
LastNow == last.arrived_at

\* C12: remaining_resources returns a value in [0, resource_limit] for every
\* quota, state and query time; 0 when period is zero, and otherwise
\* resource_limit when tat is unset or tat <= now.
C12_RemainingBounds ==
    LastRemaining =>
        /\ last.res.kind = "Value"
        /\ last.res.val \in 0..quota.resource_limit
        /\ (quota.period = 0 => last.res.val = 0)
        /\ (quota.period > 0
              /\ (~IsSome(last.pre) \/ Unwrap(last.pre) <= LastNow))
             => last.res.val = quota.resource_limit

\* C13 as stated: tat, when set, is at least the arrival time passed to the
\* most recent successful call (check or revert) that wrote it.
C13_TatNotBeforeWriter_Original ==
    (IsSome(state.tat) /\ wrote.op # "none") =>
        Unwrap(state.tat) >= wrote.arrived_at

\* C13 (amended): tat, when set and last written by an admitted
\* check_and_modify_at, is at least the arrival time passed to that check.
C13_TatNotBeforeWriter ==
    (IsSome(state.tat) /\ wrote.op = "check") =>
        Unwrap(state.tat) >= wrote.arrived_at

C13_Witness ==
    /\ wrote.op = "check"
    /\ LastCheck
    /\ last.res = Ok
    /\ IsSome(last.pre)
    /\ Unwrap(last.pre) + LastInc < last.arrived_at
    /\ LastInc > 0
    /\ IsSome(state.tat)

\* C14: a check with increment_interval <= period presented at
\* arrived_at >= tat is admitted; a tat before arrived_at is discarded (new
\* tat = arrived_at + increment_interval); and with backlog,
\* next_allowed_at = arrived_at admits.
C14_DrainedAndTieBreak ==
    (LastCheck /\ IsSome(last.pre) /\ LastInc <= quota.period) =>
        LET tat == Unwrap(last.pre) IN
        /\ (last.arrived_at >= tat => last.res = Ok)
        /\ (tat < last.arrived_at =>
               state.tat = Some(last.arrived_at + LastInc))
        /\ ((tat >= last.arrived_at
               /\ tat + LastInc - quota.period = last.arrived_at) =>
               (last.res = Ok /\ state.tat = Some(tat + LastInc)))

C14_Witness ==
    /\ LastCheck
    /\ IsSome(last.pre)
    /\ Unwrap(last.pre) > last.arrived_at
    /\ Unwrap(last.pre) + LastInc - quota.period = last.arrived_at
    /\ LastInc > 0
    /\ last.res = Ok

C16_ZeroMeansDenied ==
    (LastRemaining /\ last.res = Value(0) /\ quota.emission_interval > 0
        /\ (IsSome(maxAdmit) => LastNow >= Unwrap(maxAdmit))) =>
        IsErr(check_and_modify_at(quota, state.tat, LastNow, 1).res)

\* C17: tat, when set, never exceeds A + period, A the largest arrived_at
\* among the checks admitted so far; every admitted check leaves
\* tat <= arrived_at + period.
C17_BurstTolerance ==
    /\ IsSome(state.tat) =>
          (IsSome(maxAdmit)
             /\ Unwrap(state.tat) <= Unwrap(maxAdmit) + quota.period)
    /\ (LastCheck /\ last.res = Ok) =>
          Unwrap(state.tat) <= last.arrived_at + quota.period

C17_Witness ==
    /\ ExactQuota
    /\ LastCheck
    /\ last.res = Ok
    /\ IsSome(last.pre)
    /\ Unwrap(last.pre) >= last.arrived_at
    /\ LastInc > 0
    /\ last.arrived_at < Unwrap(maxAdmit)
    /\ state.tat = Some(last.arrived_at + quota.period)

\* C18: in a sequence of checks without reverts, in any order of arrival
\* times, emission_interval times the total cost admitted at arrival times
\* in [t0, t1] is at most (t1 - t0) + period.
C18_LongRunRate ==
    \A t0 \in Times, t1 \in Times :
        t0 <= t1 =>
            quota.emission_interval * WindowCost(t0, t1)
                <= (t1 - t0) + quota.period

C18_Witness ==
    /\ ExactQuota
    /\ \E t0 \in Times, t1 \in Times :
         /\ t0 < t1
         /\ admitted[t0] > 0
         /\ admitted[t1] > 0
         /\ quota.emission_interval * WindowCost(t0, t1)
                = (t1 - t0) + quota.period
    /\ IsSome(state.tat)
    /\ Unwrap(state.tat) < MaxTime + quota.period

\* C19: a revert_at(arrived_at, cost) directly after an admitted
\* check_and_modify_at(arrived_at, cost) restores the tat the check found
\* when that tat was set and >= arrived_at; after a check on an unset or
\* drained state it leaves tat = arrived_at, not the prior value.
C19_CheckRevertRoundTrip ==
    (LastRevert /\ last.charged_at = Some(last.arrived_at)) =>
        IF IsSome(last.charged_pre)
              /\ Unwrap(last.charged_pre) >= last.arrived_at
        THEN state.tat = last.charged_pre
        ELSE (state.tat = Some(last.arrived_at)
                 /\ state.tat # last.charged_pre)

C19_Witness ==
    /\ LastRevert
    /\ last.charged_at = Some(last.arrived_at)
    /\ IsSome(last.charged_pre)
    /\ Unwrap(last.charged_pre) > last.arrived_at
    /\ last.cost > 1
    /\ LastInc > 0
    /\ state.tat = last.charged_pre

====
